---- MODULE Spec2Model ----
(***************************************************************************)
(* A model of the window/menu interaction engine of src/main.py: the      *)
(* Application's event dispatch, the WindowManager's z-order, the         *)
(* DraggableWindow state machine, the Taskbar and the popup-menu stack.   *)
(* One action per input event kind (the whole of Application.handle_event *)
(* for that event) plus the per-frame draw pass, which is where the code  *)
(* repositions the title-bar buttons and sizes the main menu.             *)
(***************************************************************************)
EXTENDS Integers, Sequences, FiniteSets, TLC

VARIABLES
    screen_width,        \* Application.screen_width
    screen_height,       \* Application.screen_height
    prev_screen_width,   \* Application.prev_screen_width
    prev_screen_height,  \* Application.prev_screen_height
    is_fullscreen,       \* Application.is_fullscreen
    running,             \* Application.running
    windows,             \* WindowManager.windows: z-order, a sequence of window ids
    win,                 \* the DraggableWindow objects, indexed by id (creation order)
    minimized_windows,   \* Taskbar.minimized_windows: a sequence of window ids
    taskbar_rect,        \* Taskbar.rect
    menu_stack,          \* Application.menu_stack: a sequence of popup records
    selected_window,     \* Application.selected_window: a window id, or None
    font,                \* the metrics the font backend reports (fixed for a run)
    pc,                  \* "loop" while run() iterates, "fault" after an uncaught
                         \* exception, "exited" after the loop has ended
    events,              \* history: the number of input events handled so far
    last,                \* history: the event handled last, its cursor position and
                         \* the depth of the menu stack it met
    hist                 \* history, per window: whether the last event maximized or
                         \* minimized it (and from which rectangle), or undid that

vars == <<screen_width, screen_height, prev_screen_width, prev_screen_height,
          is_fullscreen, running, windows, win, minimized_windows, taskbar_rect,
          menu_stack, selected_window, font, pc, events, last, hist>>

-----------------------------------------------------------------------------
(* Bounds of the model *)

MaxWindows == 2      \* Ctrl+N is offered while fewer windows exist
MaxOptions == 1      \* "New Option" is offered while the target has fewer options
MaxText == 9         \* typing is offered while the edit buffer is shorter
MaxPagedOptions == 11 \* in PageSpec "New Option" is offered while fewer options exist
MaxBody == 20        \* in EditSpec an edit is offered while buffer and body stay this short
MaxErase == 8        \* in EditSpec Backspace is offered while the buffer is at most this long
MaxEvents == 5       \* input events are offered while fewer have been handled
MaxFront == 4        \* in FrontSpec the windows that exist, in or out of the manager

(* Program constants *)

TASKBAR_HEIGHT == 40
INIT_SCREEN_WIDTH == 800
INIT_SCREEN_HEIGHT == 600
OPTIONS_PER_PAGE == 5
MIN_DRAG_WIDTH == 200
MIN_DRAG_HEIGHT == 150
MIN_SCALED_WIDTH == 150
MIN_SCALED_HEIGHT == 100
BUTTON_SIZE == 20
RESIZE_HANDLE == 10
NEW_WINDOW_WIDTH == 300
NEW_WINDOW_HEIGHT == 200
TASK_BUTTON_WIDTH == 100
TASK_BUTTON_SPACING == 10
MENU_WIDTH == 200
OPTION_ROW == 30
OPTION_HEIGHT == 25
SLIDER_WIDTH == 150

None == 0

-----------------------------------------------------------------------------
(* pygame.Rect *)

Rect(x, y, w, h) == [x |-> x, y |-> y, w |-> w, h |-> h]

Right(r) == r.x + r.w

Bottom(r) == r.y + r.h

\* Rect.collidepoint: left/top edges inclusive, right/bottom exclusive
CollidePoint(r, p) ==
    /\ p[1] >= r.x /\ p[1] < r.x + r.w
    /\ p[2] >= r.y /\ p[2] < r.y + r.h

Max(a, b) == IF a >= b THEN a ELSE b

Min(a, b) == IF a <= b THEN a ELSE b

\* int(n / d) of Python for d > 0: truncation toward zero
TruncDiv(n, d) == IF n >= 0 THEN n \div d ELSE -((-n) \div d)

\* int(v * (new / old)) as the VIDEORESIZE handler computes it.  The screen
\* sizes of the model keep new/old a dyadic rational, for which the float
\* product is exact and the truncation is that of the exact quotient.
Scale(v, new, old) == TruncDiv(v * new, old)

InSeq(x, s) == \E k \in 1..Len(s) : s[k] = x

IndexOf(x, s) == CHOOSE k \in 1..Len(s) : s[k] = x /\ \A j \in 1..(k-1) : s[j] # x

RemoveAt(s, k) == SubSeq(s, 1, k-1) \o SubSeq(s, k+1, Len(s))

\* list.remove(x): the first occurrence
RemoveFirst(s, x) == IF InSeq(x, s) THEN RemoveAt(s, IndexOf(x, s)) ELSE s

-----------------------------------------------------------------------------
(* DraggableWindow *)

ButtonRect(topleft) == Rect(topleft[1], topleft[2], BUTTON_SIZE, BUTTON_SIZE)

ResizeHandleRect(r) ==
    Rect(Right(r) - RESIZE_HANDLE, Bottom(r) - RESIZE_HANDLE, RESIZE_HANDLE, RESIZE_HANDLE)

DefaultTitle(k) == "Window " \o ToString(k)

\* DraggableWindow.__init__ (with Window.__init__)
NewDraggableWindow(x, y, w, h, title) ==
    [rect |-> Rect(x, y, w, h),
     title |-> title,
     minimized |-> FALSE,
     maximized |-> FALSE,
     selected |-> FALSE,
     resize |-> FALSE,
     offset_x |-> 0,
     offset_y |-> 0,
     prev_rect |-> Rect(x, y, w, h),
     minimize_button |-> <<0, 0>>,
     maximize_button |-> <<0, 0>>,
     color |-> <<100, 100, 250>>,
     dynamic_options |-> <<>>]

(* The operators below work on a record st of the mutable objects one event *)
(* handler can touch: st.windows (z-order), st.win (window objects), st.tb  *)
(* (Taskbar.minimized_windows), st.sel (Application.selected_window) and    *)
(* st.menus (Application.menu_stack).                                       *)

\* An add_window that appends without looking
TaskbarAddAlways(tb, i) == Append(tb, i)

\* Taskbar.add_window
TaskbarAdd(tb, i) == IF InSeq(i, tb) THEN tb ELSE Append(tb, i)

\* A remove_window that leaves the list alone
TaskbarKeep(tb, i) == tb

\* Taskbar.remove_window
TaskbarRemove(tb, i) == RemoveFirst(tb, i)

\* DraggableWindow.minimize
Minimize(st, i) ==
    [st EXCEPT !.win[i].minimized = TRUE,
               !.tb = TaskbarAdd(@, i)]

\* A maximize that does not store the rectangle it leaves
MaximizeKeepPrev(st, i, sw, sh) ==
    [st EXCEPT !.win[i].rect = Rect(0, 0, sw, sh - TASKBAR_HEIGHT),
               !.win[i].maximized = TRUE]

\* DraggableWindow.maximize
Maximize(st, i, sw, sh) ==
    [st EXCEPT !.win[i].prev_rect = st.win[i].rect,
               !.win[i].rect = Rect(0, 0, sw, sh - TASKBAR_HEIGHT),
               !.win[i].maximized = TRUE]

\* DraggableWindow.restore
Restore(st, i) ==
    [st EXCEPT !.win[i].rect = st.win[i].prev_rect,
               !.win[i].minimized = FALSE,
               !.win[i].maximized = FALSE,
               !.tb = TaskbarRemove(@, i)]

\* DraggableWindow.toggle_maximize
ToggleMaximize(st, i, sw, sh) ==
    IF st.win[i].maximized THEN Restore(st, i) ELSE Maximize(st, i, sw, sh)

\* MOUSEMOTION on a selected window in resize mode: the new size is floored,
\* and taken only if the window then ends inside the screen above the taskbar
ResizeDrag(w, pos, sw, sh) ==
    LET new_width == Max(MIN_DRAG_WIDTH, pos[1] - w.rect.x - w.offset_x)
        new_height == Max(MIN_DRAG_HEIGHT, pos[2] - w.rect.y - w.offset_y)
    IN  IF /\ w.rect.x + new_width <= sw
           /\ w.rect.y + new_height <= sh - TASKBAR_HEIGHT
        THEN [w EXCEPT !.rect.w = new_width, !.rect.h = new_height]
        ELSE w

\* MOUSEMOTION on a selected window in move mode
MoveDrag(w, pos, sw, sh) ==
    LET new_x == Min(Max(0, pos[1] - w.offset_x), sw - w.rect.w)
        new_y == Min(Max(0, pos[2] - w.offset_y), sh - w.rect.h - TASKBAR_HEIGHT)
    IN  [w EXCEPT !.rect.x = new_x, !.rect.y = new_y]

\* DraggableWindow.handle_event
WindowHandleEvent(st, i, ev, sw, sh) ==
    LET w == st.win[i] IN
    IF w.minimized THEN st
    ELSE IF ev.type = "MOUSEBUTTONDOWN" THEN
        IF ev.button # 1 THEN st
        ELSE IF CollidePoint(ButtonRect(w.minimize_button), ev.pos) THEN Minimize(st, i)
        ELSE IF CollidePoint(ButtonRect(w.maximize_button), ev.pos)
            THEN ToggleMaximize(st, i, sw, sh)
        ELSE IF CollidePoint(ResizeHandleRect(w.rect), ev.pos) THEN
            [st EXCEPT !.win[i].selected = TRUE,
                       !.win[i].resize = TRUE,
                       !.win[i].offset_x = ev.pos[1] - Right(w.rect),
                       !.win[i].offset_y = ev.pos[2] - Bottom(w.rect)]
        ELSE IF CollidePoint(w.rect, ev.pos) THEN
            [st EXCEPT !.win[i].selected = TRUE,
                       !.win[i].resize = FALSE,
                       !.win[i].offset_x = ev.pos[1] - w.rect.x,
                       !.win[i].offset_y = ev.pos[2] - w.rect.y]
        ELSE st
    ELSE IF ev.type = "MOUSEBUTTONUP" THEN
        IF ev.button = 1
        THEN [st EXCEPT !.win[i].selected = FALSE, !.win[i].resize = FALSE]
        ELSE st
    ELSE IF ev.type = "MOUSEMOTION" THEN
        IF ~w.selected THEN st
        ELSE IF w.resize THEN [st EXCEPT !.win[i] = ResizeDrag(w, ev.pos, sw, sh)]
        ELSE [st EXCEPT !.win[i] = MoveDrag(w, ev.pos, sw, sh)]
    ELSE st

-----------------------------------------------------------------------------
(* WindowManager *)

\* WindowManager.add_window
AddWindow(st, w) ==
    [st EXCEPT !.win = Append(@, w),
               !.windows = Append(@, Len(st.win) + 1)]

\* A bring_to_front that swaps the window with the topmost one
BringToFrontSwap(st, i) ==
    IF InSeq(i, st.windows)
    THEN LET k == IndexOf(i, st.windows)
             n == Len(st.windows)
         IN  [st EXCEPT !.windows = [@ EXCEPT ![k] = st.windows[n], ![n] = i]]
    ELSE st

\* WindowManager.bring_to_front
BringToFront(st, i) ==
    IF InSeq(i, st.windows)
    THEN [st EXCEPT !.windows = Append(RemoveAt(@, IndexOf(i, @)), i)]
    ELSE st

\* WindowManager.handle_event: the loop over reversed(self.windows), from
\* z-position k down; it stops at the first window that is selected after
\* its own handle_event
RECURSIVE WMProbe(_, _, _, _, _)
WMProbe(st, k, ev, sw, sh) ==
    IF k = 0 THEN st
    ELSE LET i == st.windows[k]
             s1 == WindowHandleEvent(st, i, ev, sw, sh)
         IN  IF s1.win[i].selected
             THEN [BringToFront(s1, i) EXCEPT !.sel = i]
             ELSE WMProbe(s1, k - 1, ev, sw, sh)

\* A loop that hands the event to every window, from z-position k down
RECURSIVE WMDeliverAll(_, _, _, _, _)
WMDeliverAll(st, k, ev, sw, sh) ==
    IF k = 0 THEN st
    ELSE WMDeliverAll(WindowHandleEvent(st, st.windows[k], ev, sw, sh), k - 1, ev, sw, sh)

\* A handle_event that does not stop at the first selected window: every
\* window gets the event, then the topmost selected one is brought to front
WMHandleEventNoStop(st, ev, sw, sh) ==
    LET s1 == WMDeliverAll(st, Len(st.windows), ev, sw, sh)
        sel == {k \in 1..Len(s1.windows) : s1.win[s1.windows[k]].selected}
    IN  IF sel = {} THEN s1
        ELSE LET k == CHOOSE k \in sel : \A j \in sel : k >= j
             IN  [BringToFront(s1, s1.windows[k]) EXCEPT !.sel = s1.windows[k]]

WMHandleEvent(st, ev, sw, sh) == WMProbe(st, Len(st.windows), ev, sw, sh)

-----------------------------------------------------------------------------
(* Taskbar *)

TaskbarRect(sw, sh) == Rect(0, sh - TASKBAR_HEIGHT, sw, TASKBAR_HEIGHT)

\* the button of the idx-th (0-based) minimized window
TaskButtonRect(idx, sh) ==
    Rect(TASK_BUTTON_SPACING + idx * (TASK_BUTTON_WIDTH + TASK_BUTTON_SPACING),
         sh - TASKBAR_HEIGHT + 5,
         TASK_BUTTON_WIDTH,
         TASKBAR_HEIGHT - 10)

\* Taskbar.handle_event: the first button under the cursor restores its window
TaskbarHandleEvent(st, ev, sh) ==
    IF ev.type = "MOUSEBUTTONDOWN" /\ ev.button = 1
    THEN LET hits == {k \in 1..Len(st.tb) : CollidePoint(TaskButtonRect(k - 1, sh), ev.pos)}
         IN  IF hits = {} THEN st
             ELSE LET k == CHOOSE k \in hits : \A j \in hits : k <= j
                      i == st.tb[k]
                      s1 == Restore(st, i)
                      s2 == [s1 EXCEPT !.tb = TaskbarRemove(@, i)]
                  IN  BringToFront(s2, i)
    ELSE st

-----------------------------------------------------------------------------
(* Popups: MainMenuWindow, RGBPropertiesWindow, HelpWindow,                *)
(* EditablePopupWindow.  All are records of one shape; a field a kind does *)
(* not have keeps its default.  The caret counters of EditablePopupWindow  *)
(* (cursor_counter, cursor_visible) only steer drawing and are left out.   *)

NoPopup == [kind |-> "None"]

BlankPopup ==
    [kind |-> "None", rect |-> Rect(0, 0, 0, 0), target |-> None,
     current_page |-> 0, option |-> 0, title |-> "", body |-> "",
     editing_title |-> FALSE, editing_body |-> FALSE, input_text |-> "",
     r |-> 0, g |-> 0, b |-> 0,
     dragging |-> [r |-> FALSE, g |-> FALSE, b |-> FALSE]]

STATIC_OPTIONS == <<"RGB", "Help", "New Option">>

\* MainMenuWindow.__init__: the height is set by draw
MainMenuWindow(x, y, target) ==
    [BlankPopup EXCEPT !.kind = "MainMenu",
                       !.rect = Rect(x, y, MENU_WIDTH, 0),
                       !.target = target]

\* calculate_popup_size, for text whose widest line renders text_w pixels wide
\* and whose lines render line_h pixels high
PopupSize(n_lines, text_w, line_h, padding) ==
    <<text_w + padding * 2, padding * 2 + n_lines * (line_h + 5)>>

\* RGBPropertiesWindow.__init__
RGBPropertiesWindow(x, y, target, fm) ==
    LET size == PopupSize(2, fm.rgb_w, fm.line_h, 20) IN
    [BlankPopup EXCEPT !.kind = "RGB",
                       !.rect = Rect(x, y, Max(size[1], 200), size[2] + 80),
                       !.target = target,
                       !.r = 100, !.g = 100, !.b = 250]

\* HelpWindow.__init__
HelpWindow(x, y, fm) ==
    LET size == PopupSize(15, fm.help_w, fm.line_h, 20) IN
    [BlankPopup EXCEPT !.kind = "Help", !.rect = Rect(x, y, size[1], size[2])]

\* EditablePopupWindow.__init__: option is the position of the shared record
\* in the target's dynamic_options (records are never removed or reordered)
EditablePopupWindow(x, y, target, option, rec) ==
    [BlankPopup EXCEPT !.kind = "Editable",
                       !.rect = Rect(x, y, 300, 200),
                       !.target = target,
                       !.option = option,
                       !.title = rec.name,
                       !.body = rec.body]

\* MainMenuWindow.has_multiple_pages
HasMultiplePages(dyn) == Len(dyn) > OPTIONS_PER_PAGE

\* A page count that rounds down
GetTotalPagesFloor(dyn) == Len(dyn) \div OPTIONS_PER_PAGE

\* MainMenuWindow.get_total_pages
GetTotalPages(dyn) == (Len(dyn) + OPTIONS_PER_PAGE - 1) \div OPTIONS_PER_PAGE

\* MainMenuWindow.get_visible_options: the static options, then the slice
\* dynamic_options[page*5 : page*5+5]; idx is the record's position in
\* dynamic_options (0 for a static option)
GetVisibleOptions(page, dyn) ==
    LET start_index == page * OPTIONS_PER_PAGE
        end_index == Min(start_index + OPTIONS_PER_PAGE, Len(dyn))
    IN  [k \in 1..Len(STATIC_OPTIONS) |-> [name |-> STATIC_OPTIONS[k], idx |-> 0]]
        \o [k \in 1..Max(end_index - start_index, 0) |->
               [name |-> dyn[start_index + k].name, idx |-> start_index + k]]

\* the rectangle of the i-th (0-based) visible option
OptionRect(r, i) == Rect(r.x + 10, r.y + 10 + i * OPTION_ROW, r.w - 20, OPTION_HEIGHT)

PrevButtonRect(r) == Rect(r.x + 10, r.y + r.h - 40, 60, 30)

NextButtonRect(r) == Rect(r.x + r.w - 70, r.y + r.h - 40, 60, 30)

\* A prev button that stops at the first page
PrevPageNoWrap(page, total) == Max(page - 1, 0)

\* The page the prev button and the next button of a menu on page `page` of
\* `total` go to
PrevPage(page, total) == (page - 1) % total

NextPage(page, total) == (page + 1) % total

\* A create_new_option that stays on the page it is on
CreateNewOptionKeepPage(st, n) ==
    LET t == st.menus[n].target
        new_option_number == Len(st.win[t].dynamic_options) + 1
        new_option == [name |-> "Option " \o ToString(new_option_number),
                       body |-> "Editable body text."]
    IN  [st EXCEPT !.win[t].dynamic_options = Append(@, new_option)]

\* A create_new_option that numbers the new option with the previous count
CreateNewOptionMiscount(st, n) ==
    LET t == st.menus[n].target
        new_option == [name |-> "Option " \o ToString(Len(st.win[t].dynamic_options)),
                       body |-> "Editable body text."]
        dyn == Append(st.win[t].dynamic_options, new_option)
    IN  [st EXCEPT !.win[t].dynamic_options = dyn,
                   !.menus[n].current_page = GetTotalPages(dyn) - 1]

\* MainMenuWindow.create_new_option, on the menu at position n of the stack
CreateNewOption(st, n) ==
    LET t == st.menus[n].target
        new_option_number == Len(st.win[t].dynamic_options) + 1
        new_option == [name |-> "Option " \o ToString(new_option_number),
                       body |-> "Editable body text."]
        dyn == Append(st.win[t].dynamic_options, new_option)
    IN  [st EXCEPT !.win[t].dynamic_options = dyn,
                   !.menus[n].current_page = GetTotalPages(dyn) - 1]

\* MainMenuWindow.handle_event.  The result is the state and the popup the
\* handler returns (NoPopup for None).
MainMenuHandleEvent(st, n, ev, fm) ==
    LET m == st.menus[n]
        dyn == st.win[m.target].dynamic_options
        visible == GetVisibleOptions(m.current_page, dyn)
        hits == {k \in 1..Len(visible) : CollidePoint(OptionRect(m.rect, k - 1), ev.pos)}
    IN  IF ~(ev.type = "MOUSEBUTTONDOWN" /\ ev.button = 1)
        THEN [st |-> st, popup |-> NoPopup]
        ELSE IF hits # {} THEN
            LET k == CHOOSE k \in hits : \A j \in hits : k <= j
                option == visible[k]
            IN  IF option.name = "RGB"
                THEN [st |-> st,
                      popup |-> RGBPropertiesWindow(ev.pos[1], ev.pos[2], m.target, fm)]
                ELSE IF option.name = "Help"
                THEN [st |-> st, popup |-> HelpWindow(ev.pos[1], ev.pos[2], fm)]
                ELSE IF option.name = "New Option"
                THEN [st |-> CreateNewOption(st, n), popup |-> NoPopup]
                ELSE [st |-> st,
                      popup |-> EditablePopupWindow(ev.pos[1], ev.pos[2], m.target,
                                                    option.idx, dyn[option.idx])]
        ELSE IF HasMultiplePages(dyn) THEN
            IF CollidePoint(PrevButtonRect(m.rect), ev.pos)
            THEN [st |-> [st EXCEPT !.menus[n].current_page =
                                        PrevPage(m.current_page, GetTotalPages(dyn))],
                  popup |-> NoPopup]
            ELSE IF CollidePoint(NextButtonRect(m.rect), ev.pos)
            THEN [st |-> [st EXCEPT !.menus[n].current_page =
                                        NextPage(m.current_page, GetTotalPages(dyn))],
                  popup |-> NoPopup]
            ELSE [st |-> st, popup |-> NoPopup]
        ELSE [st |-> st, popup |-> NoPopup]

\* A str[:-1] that marks the empty string
DropLastOrMark(s) == IF Len(s) = 0 THEN "?" ELSE SubSeq(s, 1, Len(s) - 1)

\* str[:-1]
DropLast(s) == IF Len(s) = 0 THEN s ELSE SubSeq(s, 1, Len(s) - 1)

\* A commit that changes the popup and not the option record
CommitEditPopupOnly(st, n) ==
    LET m == st.menus[n] IN
    IF m.editing_title
    THEN [st EXCEPT !.menus[n].title = m.input_text, !.menus[n].editing_title = FALSE]
    ELSE [st EXCEPT !.menus[n].body = m.input_text, !.menus[n].editing_body = FALSE]

\* Enter without Shift in an edit mode: the buffer becomes the popup's title
\* (body) and the name (body) of the option record the popup is bound to
CommitEdit(st, n) ==
    LET m == st.menus[n] IN
    IF m.editing_title
    THEN [st EXCEPT !.menus[n].title = m.input_text,
                    !.menus[n].editing_title = FALSE,
                    !.win[m.target].dynamic_options[m.option].name = m.input_text]
    ELSE [st EXCEPT !.menus[n].body = m.input_text,
                    !.menus[n].editing_body = FALSE,
                    !.win[m.target].dynamic_options[m.option].body = m.input_text]

\* EditablePopupWindow.handle_event (it always returns None)
EditableHandleEvent(st, n, ev) ==
    LET m == st.menus[n]
        title_rect == Rect(m.rect.x, m.rect.y, m.rect.w, 30)
        body_rect == Rect(m.rect.x, m.rect.y + 30, m.rect.w, m.rect.h - 30)
    IN  IF ev.type = "MOUSEBUTTONDOWN" /\ ev.button = 1 THEN
            IF CollidePoint(title_rect, ev.pos)
            THEN [st EXCEPT !.menus[n].editing_title = TRUE,
                            !.menus[n].editing_body = FALSE,
                            !.menus[n].input_text = m.title]
            ELSE IF CollidePoint(body_rect, ev.pos)
            THEN [st EXCEPT !.menus[n].editing_body = TRUE,
                            !.menus[n].editing_title = FALSE,
                            !.menus[n].input_text = m.body]
            ELSE [st EXCEPT !.menus[n].editing_title = FALSE,
                            !.menus[n].editing_body = FALSE]
        ELSE IF ev.type = "KEYDOWN" /\ (m.editing_title \/ m.editing_body) THEN
            IF ev.key = "RETURN" THEN
                IF ev.shift THEN
                    IF m.editing_body
                    THEN [st EXCEPT !.menus[n].body = m.body \o "\n",
                                    !.menus[n].input_text = m.input_text \o "\n"]
                    ELSE st
                ELSE CommitEdit(st, n)
            ELSE IF ev.key = "BACKSPACE"
            THEN [st EXCEPT !.menus[n].input_text = DropLast(m.input_text)]
            ELSE [st EXCEPT !.menus[n].input_text = m.input_text \o ev.unicode]
        ELSE st

\* the slider rectangles of an RGBPropertiesWindow created at (x, y)
SliderRect(r, c) ==
    Rect(r.x + 20,
         r.y + (IF c = "r" THEN 60 ELSE IF c = "g" THEN 90 ELSE 120),
         SLIDER_WIDTH, 20)

\* A channel value that is not clamped to the slider
SliderValueUnclamped(px, slider) == TruncDiv((px - slider.x) * 255, slider.w)

\* the channel value a cursor at abscissa px sets on a slider:
\* int(min(max(0, px - slider.x), slider.width) / slider.width * 255)
SliderValue(px, slider) ==
    TruncDiv(Min(Max(0, px - slider.x), slider.w) * 255, slider.w)

\* RGBPropertiesWindow.handle_event with update_color (it returns None)
RGBHandleEvent(st, n, ev) ==
    LET m == st.menus[n]
        chan(c, old) == IF m.dragging[c] THEN SliderValue(ev.pos[1], SliderRect(m.rect, c))
                        ELSE old
    IN  IF ev.type = "MOUSEBUTTONDOWN" /\ ev.button = 1 THEN
            [st EXCEPT !.menus[n].dragging =
                [c \in {"r", "g", "b"} |->
                    IF CollidePoint(SliderRect(m.rect, c), ev.pos) THEN TRUE ELSE @[c]]]
        ELSE IF ev.type = "MOUSEBUTTONUP" /\ ev.button = 1 THEN
            [st EXCEPT !.menus[n].dragging = [c \in {"r", "g", "b"} |-> FALSE]]
        ELSE IF ev.type = "MOUSEMOTION" THEN
            IF m.dragging["r"] \/ m.dragging["g"] \/ m.dragging["b"]
            THEN [st EXCEPT !.menus[n].r = chan("r", m.r),
                            !.menus[n].g = chan("g", m.g),
                            !.menus[n].b = chan("b", m.b),
                            !.win[m.target].color =
                                <<chan("r", m.r), chan("g", m.g), chan("b", m.b)>>]
            ELSE st
        ELSE st

\* A delivery to the bottom of the menu stack instead of its top
PopupHandleEventBottom(st, ev, fm) ==
    LET kind == st.menus[1].kind
    IN  IF kind = "MainMenu" THEN MainMenuHandleEvent(st, 1, ev, fm)
        ELSE IF kind = "Editable" THEN [st |-> EditableHandleEvent(st, 1, ev), popup |-> NoPopup]
        ELSE IF kind = "RGB" THEN [st |-> RGBHandleEvent(st, 1, ev), popup |-> NoPopup]
        ELSE [st |-> st, popup |-> NoPopup]

\* current_menu.handle_event(event) on the top of the menu stack, by kind
PopupHandleEvent(st, ev, fm) ==
    LET n == Len(st.menus)
        kind == st.menus[n].kind
    IN  IF kind = "MainMenu" THEN MainMenuHandleEvent(st, n, ev, fm)
        ELSE IF kind = "Editable" THEN [st |-> EditableHandleEvent(st, n, ev), popup |-> NoPopup]
        ELSE IF kind = "RGB" THEN [st |-> RGBHandleEvent(st, n, ev), popup |-> NoPopup]
        ELSE [st |-> st, popup |-> NoPopup]

\* new_popup = current_menu.handle_event(event); if new_popup: append it
DeliverToTopMenu(st, ev, fm) ==
    LET res == PopupHandleEvent(st, ev, fm)
    IN  IF res.popup.kind # "None"
        THEN [res.st EXCEPT !.menus = Append(@, res.popup)]
        ELSE res.st

-----------------------------------------------------------------------------
(* The environment: screen sizes, font metrics, cursor positions, keys *)

\* Sizes a VIDEORESIZE event reports.  With the initial 800x600 and the
\* fullscreen size every ratio of two widths or two heights is dyadic.
ResizeSizes == {<<400, 300>>, <<800, 600>>}

\* The size of the display, which set_mode((0, 0), FULLSCREEN) selects
FullscreenSizes == {<<1600, 1200>>}

\* Metrics of pygame.font.Font(None, 24): the height of a rendered line, the
\* width of the widest line of the RGB popup's text and of the help text
FontMetrics == {[line_h |-> 17, rgb_w |-> 250, help_w |-> 540]}

\* The unicode attribute of a KEYDOWN with Ctrl held is a control character;
\* a one-character stand-in is used for it.
CtrlKeys ==
    {[type |-> "KEYDOWN", key |-> "n", ctrl |-> TRUE, shift |-> FALSE, unicode |-> "^"],
     [type |-> "KEYDOWN", key |-> "w", ctrl |-> TRUE, shift |-> FALSE, unicode |-> "^"],
     [type |-> "KEYDOWN", key |-> "f", ctrl |-> TRUE, shift |-> FALSE, unicode |-> "^"]}

OnScreen(p) ==
    /\ p[1] >= 0 /\ p[1] < screen_width
    /\ p[2] >= 0 /\ p[2] < screen_height

\* Cursor positions at the controls of window i: its two buttons (where the
\* last draw left them), its resize handle and its body
WindowPoints(i) ==
    LET w == win[i] IN
    {<<w.minimize_button[1] + 5, w.minimize_button[2] + 5>>,
     <<w.maximize_button[1] + 5, w.maximize_button[2] + 5>>,
     <<Right(w.rect) - 5, Bottom(w.rect) - 5>>,
     <<w.rect.x + 10, w.rect.y + 40>>}

\* Cursor positions on the taskbar: each button, and the free end of the strip
TaskbarPoints ==
    {<<TaskButtonRect(k - 1, screen_height).x + 5, screen_height - TASKBAR_HEIGHT + 10>> :
        k \in 1..Len(minimized_windows)}
    \cup {<<screen_width - 5, screen_height - 5>>}

\* Cursor positions on the top popup: the rows and page buttons of a main
\* menu, the title bar and body of an editable popup, the sliders of an RGB
\* popup, the text of a help popup
PopupPoints ==
    IF menu_stack = <<>> THEN {}
    ELSE LET m == menu_stack[Len(menu_stack)]
             r == m.rect
         IN  IF m.kind = "MainMenu"
             THEN {<<r.x + 15, r.y + 15 + k * OPTION_ROW>> : k \in 0..3}
                  \cup {<<r.x + 15, r.y + r.h - 35>>, <<r.x + r.w - 65, r.y + r.h - 35>>}
             ELSE IF m.kind = "Editable"
             THEN {<<r.x + 5, r.y + 5>>, <<r.x + 5, r.y + 35>>}
             ELSE IF m.kind = "RGB"
             THEN {<<r.x + 95, r.y + 65>>, <<r.x + 95, r.y + 95>>, <<r.x + 95, r.y + 125>>}
             ELSE {<<r.x + 5, r.y + 5>>}

\* Where the left button goes down: the controls of every window, the
\* taskbar, the top popup
ClickPoints ==
    {p \in (UNION {WindowPoints(i) : i \in 1..Len(win)}) \cup TaskbarPoints \cup PopupPoints :
        OnScreen(p)}

\* Where the right button goes down: the body of every window, the free end
\* of the taskbar, the top popup
RightClickPoints ==
    {p \in {<<win[i].rect.x + 10, win[i].rect.y + 40>> : i \in 1..Len(win)}
           \cup {<<screen_width - 5, screen_height - 5>>}
           \cup PopupPoints :
        OnScreen(p)}

\* Corners a move-drag brings the dragged window to, and sizes a resize-drag
\* asks for (the first is below the floor of 200x150)
MoveAnchors == {<<0, 0>>, <<100, 100>>}

ResizeTargets == {<<100, 100>>, <<300, 200>>, <<400, 300>>}

\* Cursor positions that drag window i: those that ask for a corner of
\* MoveAnchors or a size of ResizeTargets
DragPoints(i) ==
    LET w == win[i] IN
    IF ~w.selected THEN {}
    ELSE IF w.resize
    THEN {<<w.rect.x + t[1] + w.offset_x, w.rect.y + t[2] + w.offset_y>> : t \in ResizeTargets}
    ELSE {<<a[1] + w.offset_x, a[2] + w.offset_y>> : a \in MoveAnchors}

\* Where the cursor moves to: the drag positions, the sliders of an RGB
\* popup, and two corners of the screen
MotionPoints ==
    {p \in (UNION {DragPoints(i) : i \in 1..Len(win)})
           \cup PopupPoints
           \cup {<<0, 0>>, <<screen_width - 1, screen_height - 1>>} :
        OnScreen(p)}

-----------------------------------------------------------------------------
(* Application *)

St ==
    [windows |-> windows, win |-> win, tb |-> minimized_windows,
     sel |-> selected_window, menus |-> menu_stack]

Commit(st) ==
    /\ windows' = st.windows
    /\ win' = st.win
    /\ minimized_windows' = st.tb
    /\ selected_window' = st.sel
    /\ menu_stack' = st.menus

\* The model's bounds on what the handlers may grow
WithinBounds(st) ==
    /\ \A i \in 1..Len(st.win) : Len(st.win[i].dynamic_options) <= MaxOptions
    /\ \A n \in 1..Len(st.menus) : Len(st.menus[n].input_text) <= MaxText

NoToggle == [phase |-> "none", rect |-> Rect(0, 0, 0, 0)]

\* The history of one event: what it was, where the cursor was, how deep the
\* menu stack was and whether the cursor was on its top popup; and for every
\* window whether the event maximized or minimized it (and with which
\* rectangle), or undid what the event before had done
Observe(name, p, after) ==
    /\ last' = [ev |-> name, pos |-> p, menus |-> Len(menu_stack),
                in_top |-> /\ menu_stack # <<>>
                           /\ CollidePoint(menu_stack[Len(menu_stack)].rect, p)]
    /\ hist' =
          [i \in 1..Len(after) |->
              IF i > Len(win) THEN NoToggle
              ELSE IF ~win[i].maximized /\ after[i].maximized
              THEN [phase |-> "maximized", rect |-> win[i].rect]
              ELSE IF /\ win[i].minimized /\ ~after[i].minimized
                      /\ hist[i].phase = "minimized"
              THEN [phase |-> "unminimized", rect |-> hist[i].rect]
              ELSE IF /\ win[i].maximized /\ ~after[i].maximized
                      /\ hist[i].phase = "maximized"
              THEN [phase |-> "restored", rect |-> hist[i].rect]
              ELSE IF ~win[i].minimized /\ after[i].minimized /\ ~win[i].maximized
              THEN [phase |-> "minimized", rect |-> win[i].rect]
              ELSE NoToggle]

\* The history of one event of a run whose events are counted
History(name, p, after) ==
    /\ events' = events + 1
    /\ Observe(name, p, after)

\* The last branch of Application.handle_event, taken by every event that is
\* not a MOUSEBUTTONDOWN: the top popup, then the WindowManager
DispatchOther(st, ev, sw, sh, fm) ==
    LET s1 == IF st.menus # <<>> THEN DeliverToTopMenu(st, ev, fm) ELSE st
    IN  WMHandleEvent(s1, ev, sw, sh)

\* Application.constrain_window_within_screen
ConstrainWindowWithinScreen(r0, sw, sh) ==
    LET r1 == IF r0.x + r0.w > sw THEN [r0 EXCEPT !.x = Max(sw - r0.w, 0)] ELSE r0
        r2 == IF r1.y + r1.h > sh - TASKBAR_HEIGHT
              THEN [r1 EXCEPT !.y = Max(sh - TASKBAR_HEIGHT - r1.h, 0)] ELSE r1
        r3 == IF r2.w > sw THEN [r2 EXCEPT !.w = sw] ELSE r2
    IN  IF r3.h > sh - TASKBAR_HEIGHT THEN [r3 EXCEPT !.h = sh - TASKBAR_HEIGHT] ELSE r3

\* The VIDEORESIZE loop body for one window: scale by new/prev, floor the
\* size, constrain to the new screen
RescaleWindow(r, sw, sh, psw, psh) ==
    ConstrainWindowWithinScreen(
        Rect(Scale(r.x, sw, psw),
             Scale(r.y, sh, psh),
             Max(Scale(r.w, sw, psw), MIN_SCALED_WIDTH),
             Max(Scale(r.h, sh, psh), MIN_SCALED_HEIGHT)),
        sw, sh)

\* Application.__init__ and the __main__ block
Init ==
    /\ screen_width = INIT_SCREEN_WIDTH
    /\ screen_height = INIT_SCREEN_HEIGHT
    /\ prev_screen_width = INIT_SCREEN_WIDTH
    /\ prev_screen_height = INIT_SCREEN_HEIGHT
    /\ is_fullscreen = FALSE
    /\ running = TRUE
    /\ win = <<NewDraggableWindow(100, 100, 300, 200, "Main Window")>>
    /\ windows = <<1>>
    /\ minimized_windows = <<>>
    /\ taskbar_rect = TaskbarRect(INIT_SCREEN_WIDTH, INIT_SCREEN_HEIGHT)
    /\ menu_stack = <<>>
    /\ selected_window = None
    /\ font \in FontMetrics
    /\ pc = "loop"
    /\ events = 0
    /\ last = [ev |-> "Init", pos |-> <<0, 0>>, menus |-> 0, in_top |-> FALSE]
    /\ hist = <<NoToggle>>

\* pygame.QUIT
Quit ==
    /\ pc = "loop"
    /\ events < MaxEvents
    /\ running' = FALSE
    /\ LET s2 == DispatchOther(St, [type |-> "QUIT"], screen_width, screen_height, font)
       IN  Commit(s2) /\ History("Quit", <<0, 0>>, s2.win)
    /\ UNCHANGED <<screen_width, screen_height, prev_screen_width, prev_screen_height,
                   is_fullscreen, taskbar_rect, font, pc>>

\* The new window of Ctrl+N and what the rest of the handler does with the event
CtrlNApply(st, ev, pos, sw, sh, fm) ==
    LET new_window == NewDraggableWindow(pos[1], pos[2], NEW_WINDOW_WIDTH, NEW_WINDOW_HEIGHT,
                                         DefaultTitle(Len(st.windows) + 1))
    IN  DispatchOther(AddWindow(st, new_window), ev, sw, sh, fm)

\* Ctrl+N: random.randint raises ValueError on an empty range, which nothing
\* catches; otherwise the new window is added and the event goes on to the
\* top popup and the WindowManager
CtrlN(ev) ==
    /\ pc = "loop"
    /\ events < MaxEvents
    /\ ev.key = "n"
    /\ Len(win) < MaxWindows
    /\ LET x_max == screen_width - 350
           y_max == screen_height - TASKBAR_HEIGHT - 250
       IN  IF x_max < 50 \/ y_max < 50
           THEN /\ pc' = "fault"
                /\ History("CtrlN", <<0, 0>>, win)
                /\ UNCHANGED <<windows, win, minimized_windows, selected_window, menu_stack>>
           ELSE /\ pc' = pc
                /\ \E pos \in {<<50, 50>>, <<x_max, y_max>>} :
                     LET s2 == CtrlNApply(St, ev, pos, screen_width, screen_height, font)
                     IN  WithinBounds(s2) /\ Commit(s2) /\ History("CtrlN", <<0, 0>>, s2.win)
    /\ UNCHANGED <<screen_width, screen_height, prev_screen_width, prev_screen_height,
                   is_fullscreen, running, taskbar_rect, font>>

\* Ctrl+W and what the rest of the handler does with the event
CtrlWApply(st, ev, sw, sh, fm) ==
    LET s1 == IF st.sel # None THEN [Minimize(st, st.sel) EXCEPT !.sel = None] ELSE st
    IN  DispatchOther(s1, ev, sw, sh, fm)

CtrlW(ev) ==
    /\ pc = "loop"
    /\ events < MaxEvents
    /\ ev.key = "w"
    /\ LET s2 == CtrlWApply(St, ev, screen_width, screen_height, font)
       IN  WithinBounds(s2) /\ Commit(s2) /\ History("CtrlW", <<0, 0>>, s2.win)
    /\ UNCHANGED <<screen_width, screen_height, prev_screen_width, prev_screen_height,
                   is_fullscreen, running, taskbar_rect, font, pc>>

\* Ctrl+F: the display mode is switched and the screen size and the taskbar
\* follow; the windows and prev_screen_* are not touched
CtrlF(ev) ==
    /\ pc = "loop"
    /\ events < MaxEvents
    /\ ev.key = "f"
    /\ \E size \in (IF is_fullscreen THEN {<<INIT_SCREEN_WIDTH, INIT_SCREEN_HEIGHT>>}
                    ELSE FullscreenSizes) :
          /\ screen_width' = size[1]
          /\ screen_height' = size[2]
          /\ taskbar_rect' = TaskbarRect(size[1], size[2])
          /\ LET s2 == DispatchOther(St, ev, size[1], size[2], font)
             IN  WithinBounds(s2) /\ Commit(s2) /\ History("CtrlF", <<0, 0>>, s2.win)
    /\ is_fullscreen' = ~is_fullscreen
    /\ UNCHANGED <<prev_screen_width, prev_screen_height, running, font, pc>>

\* The VIDEORESIZE branch: every window is rescaled from the previous size
\* to the new one
VideoResizeApply(st, sw, sh, psw, psh) ==
    [st EXCEPT !.win = [i \in 1..Len(st.win) |->
                           [st.win[i] EXCEPT !.rect = RescaleWindow(@, sw, sh, psw, psh)]]]

\* pygame.VIDEORESIZE
VideoResize(size) ==
    /\ pc = "loop"
    /\ events < MaxEvents
    /\ screen_width' = size[1]
    /\ screen_height' = size[2]
    /\ taskbar_rect' = TaskbarRect(size[1], size[2])
    /\ LET s1 == VideoResizeApply(St, size[1], size[2], prev_screen_width, prev_screen_height)
           s2 == DispatchOther(s1, [type |-> "VIDEORESIZE"], size[1], size[2], font)
       IN  Commit(s2) /\ History("VideoResize", <<0, 0>>, s2.win)
    /\ prev_screen_width' = size[1]
    /\ prev_screen_height' = size[2]
    /\ UNCHANGED <<is_fullscreen, running, font, pc>>

\* A left click that closes only the top popup when it lands beside it
LeftApplyPopOne(st, ev, tbr, sw, sh, fm) ==
    IF CollidePoint(tbr, ev.pos) THEN TaskbarHandleEvent(st, ev, sh)
    ELSE IF st.menus # <<>> THEN
        IF CollidePoint(st.menus[Len(st.menus)].rect, ev.pos)
        THEN DeliverToTopMenu(st, ev, fm)
        ELSE [st EXCEPT !.menus = SubSeq(@, 1, Len(@) - 1)]
    ELSE WMHandleEvent(st, ev, sw, sh)

\* A left click that, beside the top popup, closes the menus and goes on to
\* the WindowManager
LeftApplyThrough(st, ev, tbr, sw, sh, fm) ==
    IF CollidePoint(tbr, ev.pos) THEN TaskbarHandleEvent(st, ev, sh)
    ELSE IF st.menus # <<>> /\ CollidePoint(st.menus[Len(st.menus)].rect, ev.pos)
    THEN DeliverToTopMenu(st, ev, fm)
    ELSE WMHandleEvent([st EXCEPT !.menus = <<>>], ev, sw, sh)

\* MOUSEBUTTONDOWN, button 1: the taskbar, else the menu stack, else the
\* WindowManager
LeftApply(st, ev, tbr, sw, sh, fm) ==
    IF CollidePoint(tbr, ev.pos) THEN TaskbarHandleEvent(st, ev, sh)
    ELSE IF st.menus # <<>> THEN
        IF CollidePoint(st.menus[Len(st.menus)].rect, ev.pos)
        THEN DeliverToTopMenu(st, ev, fm)
        ELSE [st EXCEPT !.menus = <<>>]
    ELSE WMHandleEvent(st, ev, sw, sh)

LeftDown(p) ==
    /\ pc = "loop"
    /\ events < MaxEvents
    /\ LET ev == [type |-> "MOUSEBUTTONDOWN", button |-> 1, pos |-> p]
           s2 == LeftApply(St, ev, taskbar_rect, screen_width, screen_height, font)
       IN  WithinBounds(s2) /\ Commit(s2) /\ History("LeftDown", p, s2.win)
    /\ UNCHANGED <<screen_width, screen_height, prev_screen_width, prev_screen_height,
                   is_fullscreen, running, taskbar_rect, font, pc>>

\* A right click that steps back one popup wherever it lands
RightApplyPopOne(st, ev) ==
    IF st.menus # <<>> THEN [st EXCEPT !.menus = SubSeq(@, 1, Len(@) - 1)]
    ELSE LET under == {k \in 1..Len(st.windows) :
                          CollidePoint(st.win[st.windows[k]].rect, ev.pos)}
         IN  IF under = {} THEN st
             ELSE LET k == CHOOSE k \in under : \A j \in under : k >= j
                  IN  [st EXCEPT !.menus =
                          Append(@, MainMenuWindow(ev.pos[1], ev.pos[2], st.windows[k]))]

\* A right click that opens the menu of the lowest window under the cursor
RightApplyLowest(st, ev) ==
    IF st.menus # <<>> THEN
        IF CollidePoint(st.menus[Len(st.menus)].rect, ev.pos)
        THEN [st EXCEPT !.menus = SubSeq(@, 1, Len(@) - 1)]
        ELSE [st EXCEPT !.menus = <<>>]
    ELSE LET under == {k \in 1..Len(st.windows) :
                          CollidePoint(st.win[st.windows[k]].rect, ev.pos)}
         IN  IF under = {} THEN st
             ELSE LET k == CHOOSE k \in under : \A j \in under : k <= j
                  IN  [st EXCEPT !.menus =
                          Append(@, MainMenuWindow(ev.pos[1], ev.pos[2], st.windows[k]))]

\* MOUSEBUTTONDOWN, button 3: with a menu open, step back or close all;
\* otherwise open the main menu of the topmost window under the cursor
RightApply(st, ev) ==
    IF st.menus # <<>> THEN
        IF CollidePoint(st.menus[Len(st.menus)].rect, ev.pos)
        THEN [st EXCEPT !.menus = SubSeq(@, 1, Len(@) - 1)]
        ELSE [st EXCEPT !.menus = <<>>]
    ELSE LET under == {k \in 1..Len(st.windows) :
                          CollidePoint(st.win[st.windows[k]].rect, ev.pos)}
         IN  IF under = {} THEN st
             ELSE LET k == CHOOSE k \in under : \A j \in under : k >= j
                  IN  [st EXCEPT !.menus =
                          Append(@, MainMenuWindow(ev.pos[1], ev.pos[2], st.windows[k]))]

RightDown(p) ==
    /\ pc = "loop"
    /\ events < MaxEvents
    /\ LET s2 == RightApply(St, [type |-> "MOUSEBUTTONDOWN", button |-> 3, pos |-> p])
       IN  Commit(s2) /\ History("RightDown", p, s2.win)
    /\ UNCHANGED <<screen_width, screen_height, prev_screen_width, prev_screen_height,
                   is_fullscreen, running, taskbar_rect, font, pc>>

\* MOUSEBUTTONUP of the left button (the handlers do not read its position)
MouseUp ==
    /\ pc = "loop"
    /\ events < MaxEvents
    /\ LET s2 == DispatchOther(St, [type |-> "MOUSEBUTTONUP", button |-> 1, pos |-> <<0, 0>>],
                               screen_width, screen_height, font)
       IN  Commit(s2) /\ History("MouseUp", <<0, 0>>, s2.win)
    /\ UNCHANGED <<screen_width, screen_height, prev_screen_width, prev_screen_height,
                   is_fullscreen, running, taskbar_rect, font, pc>>

\* MOUSEMOTION
MouseMotion(p) ==
    /\ pc = "loop"
    /\ events < MaxEvents
    /\ LET s2 == DispatchOther(St, [type |-> "MOUSEMOTION", pos |-> p],
                               screen_width, screen_height, font)
       IN  Commit(s2) /\ History("MouseMotion", p, s2.win)
    /\ UNCHANGED <<screen_width, screen_height, prev_screen_width, prev_screen_height,
                   is_fullscreen, running, taskbar_rect, font, pc>>

\* DraggableWindow.draw: a window that is not minimized moves its buttons to
\* its title bar
DrawWindow(w) ==
    IF w.minimized THEN w
    ELSE [w EXCEPT !.minimize_button = <<Right(w.rect) - 2 * (BUTTON_SIZE + 5), w.rect.y + 5>>,
                   !.maximize_button = <<Right(w.rect) - (BUTTON_SIZE + 5), w.rect.y + 5>>]

\* MainMenuWindow.draw sets the menu's height; the other popups' draw
\* changes nothing that is modelled
DrawPopup(m, st) ==
    IF m.kind = "MainMenu"
    THEN LET dyn == st.win[m.target].dynamic_options
             count == Len(GetVisibleOptions(m.current_page, dyn))
         IN  [m EXCEPT !.rect.h =
                 IF HasMultiplePages(dyn)
                 THEN (Len(STATIC_OPTIONS) + OPTIONS_PER_PAGE) * OPTION_ROW + 50
                 ELSE count * OPTION_ROW + 10]
    ELSE m

\* The end of one iteration of Application.run: update() and draw(), then
\* the loop condition
Draw ==
    /\ pc = "loop"
    /\ win' = [i \in 1..Len(win) |-> DrawWindow(win[i])]
    /\ menu_stack' = [n \in 1..Len(menu_stack) |-> DrawPopup(menu_stack[n], St)]
    /\ pc' = IF running THEN "loop" ELSE "exited"
    /\ UNCHANGED <<screen_width, screen_height, prev_screen_width, prev_screen_height,
                   is_fullscreen, running, windows, minimized_windows, taskbar_rect,
                   selected_window, font, events, last, hist>>

Next ==
    \/ Quit
    \/ \E ev \in CtrlKeys : CtrlN(ev)
    \/ \E ev \in CtrlKeys : CtrlW(ev)
    \/ \E ev \in CtrlKeys : CtrlF(ev)
    \/ \E size \in ResizeSizes : VideoResize(size)
    \/ \E p \in ClickPoints : LeftDown(p)
    \/ \E p \in RightClickPoints : RightDown(p)
    \/ MouseUp
    \/ \E p \in MotionPoints : MouseMotion(p)
    \/ Draw

Spec == Init /\ [][Next]_vars

-----------------------------------------------------------------------------
(* The menus on their own: runs of right clicks, left clicks on the popups,  *)
(* key presses and draw passes, with no bound on the number of events.       *)
(* PageSpec grows the option list over three pages; EditSpec edits the       *)
(* records of a short list.                                                  *)

\* Cursor positions on the top popup as PopupPoints, with every row of a main
\* menu: the three static options and a full page of dynamic ones
MenuPoints ==
    IF menu_stack = <<>> THEN {}
    ELSE LET m == menu_stack[Len(menu_stack)]
             r == m.rect
         IN  IF m.kind = "MainMenu"
             THEN {<<r.x + 15, r.y + 15 + k * OPTION_ROW>> :
                      k \in 0..(Len(STATIC_OPTIONS) + OPTIONS_PER_PAGE - 1)}
                  \cup {<<r.x + 15, r.y + r.h - 35>>, <<r.x + r.w - 65, r.y + r.h - 35>>}
             ELSE PopupPoints

\* Where the left button goes down in these runs: the top popup and the free
\* end of the taskbar
MenuClickPoints ==
    {p \in MenuPoints \cup {<<screen_width - 5, screen_height - 5>>} : OnScreen(p)}

IsPrefix(s, t) == Len(s) <= Len(t) /\ SubSeq(t, 1, Len(s)) = s

\* Texts the typed characters spell, one character per key press
TargetTexts == {"RGB"}

\* KEYDOWN events without Ctrl: Enter, Shift+Enter, Backspace (whose
\* unicode attribute the handlers do not read) and the characters of
\* TargetTexts
EditKeys ==
    {[type |-> "KEYDOWN", key |-> "RETURN", ctrl |-> FALSE, shift |-> FALSE, unicode |-> "\r"],
     [type |-> "KEYDOWN", key |-> "RETURN", ctrl |-> FALSE, shift |-> TRUE, unicode |-> "\r"],
     [type |-> "KEYDOWN", key |-> "BACKSPACE", ctrl |-> FALSE, shift |-> FALSE, unicode |-> ""],
     [type |-> "KEYDOWN", key |-> "r", ctrl |-> FALSE, shift |-> TRUE, unicode |-> "R"],
     [type |-> "KEYDOWN", key |-> "g", ctrl |-> FALSE, shift |-> TRUE, unicode |-> "G"],
     [type |-> "KEYDOWN", key |-> "b", ctrl |-> FALSE, shift |-> TRUE, unicode |-> "B"]}

\* The kind of key press the history records; a Backspace is recorded with
\* whether the edit buffer of the top popup was empty when it was pressed
KeyName(ev) ==
    IF ev.key = "RETURN" THEN (IF ev.shift THEN "ShiftEnter" ELSE "Enter")
    ELSE IF ev.key = "BACKSPACE"
    THEN (IF menu_stack # <<>> /\ menu_stack[Len(menu_stack)].input_text = ""
          THEN "BackspaceOnEmpty" ELSE "Backspace")
    ELSE "Char"

\* Enter is pressed anywhere; Backspace and the character keys are pressed
\* while the top popup is in an edit mode: Backspace on a buffer of at most
\* MaxErase characters, a character where it continues one of TargetTexts
KeyOffered(ev) ==
    IF ev.key = "RETURN" THEN TRUE
    ELSE /\ menu_stack # <<>>
         /\ LET m == menu_stack[Len(menu_stack)]
            IN  /\ m.editing_title \/ m.editing_body
                /\ IF ev.key = "BACKSPACE"
                   THEN Len(m.input_text) <= MaxErase
                   ELSE \E t \in TargetTexts : IsPrefix(m.input_text \o ev.unicode, t)

\* The bounds of these runs on what the handlers may grow
MenuWithinBounds(st, max_options) ==
    /\ \A i \in 1..Len(st.win) : Len(st.win[i].dynamic_options) <= max_options
    /\ \A n \in 1..Len(st.menus) :
          Len(st.menus[n].input_text) <= MaxBody /\ Len(st.menus[n].body) <= MaxBody

\* The history of one event of a run whose events are not counted: events
\* flips between 0 and 1
MenuHistory(name, p, after) ==
    /\ events' = 1 - events
    /\ Observe(name, p, after)

\* MOUSEBUTTONDOWN, button 1 (Application.handle_event, left click)
MenuLeftDown(p, max_options) ==
    /\ pc = "loop"
    /\ LET ev == [type |-> "MOUSEBUTTONDOWN", button |-> 1, pos |-> p]
           s2 == LeftApply(St, ev, taskbar_rect, screen_width, screen_height, font)
       IN  MenuWithinBounds(s2, max_options) /\ Commit(s2) /\ MenuHistory("LeftDown", p, s2.win)
    /\ UNCHANGED <<screen_width, screen_height, prev_screen_width, prev_screen_height,
                   is_fullscreen, running, taskbar_rect, font, pc>>

\* MOUSEBUTTONDOWN, button 3 (Application.handle_event, right click)
MenuRightDown(p) ==
    /\ pc = "loop"
    /\ LET s2 == RightApply(St, [type |-> "MOUSEBUTTONDOWN", button |-> 3, pos |-> p])
       IN  Commit(s2) /\ MenuHistory("RightDown", p, s2.win)
    /\ UNCHANGED <<screen_width, screen_height, prev_screen_width, prev_screen_height,
                   is_fullscreen, running, taskbar_rect, font, pc>>

\* KEYDOWN without Ctrl: no shortcut matches, and the event goes to the top
\* popup and the WindowManager
MenuKeyDown(ev) ==
    /\ pc = "loop"
    /\ KeyOffered(ev)
    /\ LET s2 == DispatchOther(St, ev, screen_width, screen_height, font)
       IN  MenuWithinBounds(s2, MaxOptions) /\ Commit(s2) /\ MenuHistory(KeyName(ev), <<0, 0>>, s2.win)
    /\ UNCHANGED <<screen_width, screen_height, prev_screen_width, prev_screen_height,
                   is_fullscreen, running, taskbar_rect, font, pc>>

PageNext ==
    \/ \E p \in RightClickPoints : MenuRightDown(p)
    \/ \E p \in MenuClickPoints : MenuLeftDown(p, MaxPagedOptions)
    \/ Draw

PageSpec == Init /\ [][PageNext]_vars

EditNext ==
    \/ \E p \in RightClickPoints : MenuRightDown(p)
    \/ \E p \in MenuClickPoints : MenuLeftDown(p, MaxOptions)
    \/ \E ev \in EditKeys : MenuKeyDown(ev)
    \/ Draw

EditSpec == Init /\ [][EditNext]_vars

-----------------------------------------------------------------------------
(* WindowManager.bring_to_front on its own: the manager holds any of the     *)
(* windows that exist, in any order (add_window appends, remove_window takes *)
(* out), and bring_to_front is called with any of them, held or not.         *)

\* The sequences without repetition of windows out of 1..MaxFront
FrontOrders ==
    {s \in UNION {[1..n -> 1..MaxFront] : n \in 0..MaxFront} :
        \A a, b \in DOMAIN s : a # b => s[a] # s[b]}

FrontInit ==
    /\ screen_width = INIT_SCREEN_WIDTH
    /\ screen_height = INIT_SCREEN_HEIGHT
    /\ prev_screen_width = INIT_SCREEN_WIDTH
    /\ prev_screen_height = INIT_SCREEN_HEIGHT
    /\ is_fullscreen = FALSE
    /\ running = TRUE
    /\ win = [i \in 1..MaxFront |->
                 NewDraggableWindow(50 * i, 50, NEW_WINDOW_WIDTH, NEW_WINDOW_HEIGHT,
                                    DefaultTitle(i))]
    /\ windows \in FrontOrders
    /\ minimized_windows = <<>>
    /\ taskbar_rect = TaskbarRect(INIT_SCREEN_WIDTH, INIT_SCREEN_HEIGHT)
    /\ menu_stack = <<>>
    /\ selected_window = None
    /\ font \in FontMetrics
    /\ pc = "loop"
    /\ events = 0
    /\ last = [ev |-> "Init", arg |-> None, twice |-> FALSE]
    /\ hist = [i \in 1..MaxFront |-> NoToggle]

\* window_manager.bring_to_front(window).  The history records the window
\* and whether the call before was for the same window.
BringToFrontCall(i) ==
    /\ windows' = BringToFront(St, i).windows
    /\ events' = 1 - events
    /\ last' = [ev |-> "BringToFront", arg |-> i,
                twice |-> last.ev = "BringToFront" /\ last.arg = i]
    /\ UNCHANGED <<screen_width, screen_height, prev_screen_width, prev_screen_height,
                   is_fullscreen, running, win, minimized_windows, taskbar_rect,
                   menu_stack, selected_window, font, pc, hist>>

FrontNext == \E i \in 1..MaxFront : BringToFrontCall(i)

FrontSpec == FrontInit /\ [][FrontNext]_vars

-----------------------------------------------------------------------------
(* Properties *)

WindowIds == 1..Len(win)

\* The rectangle lies on the screen above the taskbar
OnDesktop(r) ==
    /\ 0 <= r.x /\ r.x + r.w <= screen_width
    /\ 0 <= r.y /\ r.y + r.h <= screen_height - TASKBAR_HEIGHT

TopPopup == menu_stack[Len(menu_stack)]

\* The z-positions of the windows whose rectangle contains p
Under(p) == {k \in 1..Len(windows) : CollidePoint(win[windows[k]].rect, p)}

\* The step handles one input event of the given kind (Draw leaves the
\* history alone); the cursor position of a mouse event is then last'.pos
StepIs(name) == events' # events /\ last'.ev = name

\* C1: between events every DraggableWindow is at least 200 wide and 150
\* high, whatever drags, maximizes, restores, minimizes, screen resizes and
\* fullscreen toggles came before.
C1_MinimumSize ==
    \A i \in WindowIds :
        win[i].rect.w >= MIN_DRAG_WIDTH /\ win[i].rect.h >= MIN_DRAG_HEIGHT

\* C2: after a mouse-motion event applied to a selected window (a move-drag
\* or a resize-drag) the window's rectangle lies on the screen above the
\* taskbar: 0 <= x, x + width <= screen width, 0 <= y,
\* y + height <= screen height - taskbar height.
C2_DragStaysOnDesktop ==
    (last.ev = "MouseMotion" /\ selected_window # None /\ win[selected_window].selected)
        => OnDesktop(win[selected_window].rect)

\* C3: a maximize followed immediately by a restore (two consecutive
\* toggle_maximize calls on a window that was not maximized) leaves the
\* window with the rectangle W it had before the maximize, and not
\* maximized.
C3_MaximizeRestoreRoundTrip ==
    \A i \in WindowIds :
        hist[i].phase = "restored"
            => win[i].rect = hist[i].rect /\ ~win[i].maximized

\* C3 happens: a window that had been given another rectangle than the one
\* it was created with was maximized and restored by consecutive events.
C3_Witness ==
    \E i \in WindowIds :
        /\ hist[i].phase = "restored"
        /\ last.ev = "LeftDown"
        /\ win[i].rect = hist[i].rect
        /\ win[i].rect \notin {Rect(100, 100, 300, 200), Rect(50, 50, 300, 200)}

\* C4: minimize leaves the window's rectangle unchanged, and a window that
\* was not maximized when it was minimized has, after the restore by its
\* taskbar button, exactly the rectangle it had right before the minimize.
C4_MinimizeRestoreRoundTrip ==
    \A i \in WindowIds :
        /\ hist[i].phase = "minimized" => win[i].rect = hist[i].rect
        /\ hist[i].phase = "unminimized" => win[i].rect = hist[i].rect

\* C5: no DraggableWindow is minimized and maximized at the same time.
C5_MinimizedExcludesMaximized ==
    \A i \in WindowIds : ~(win[i].minimized /\ win[i].maximized)

\* C6 as stated: with the menu stack non-empty, a left-button-down outside
\* the top popup's rectangle leaves the menu stack empty, wherever else on
\* the screen it lands.
C6_LeftClickOutsideClears ==
    [][(StepIs("LeftDown") /\ menu_stack # <<>> /\ ~CollidePoint(TopPopup.rect, last'.pos))
          => menu_stack' = <<>>]_vars

\* C6 amended: with the menu stack non-empty, a left-button-down outside the
\* top popup's rectangle and outside the taskbar's rectangle leaves the menu
\* stack empty; one inside the taskbar leaves the menu stack as it was.
C6_LeftClickOutsideClearsOffTaskbar ==
    [][(StepIs("LeftDown") /\ menu_stack # <<>> /\ ~CollidePoint(TopPopup.rect, last'.pos))
          => IF CollidePoint(taskbar_rect, last'.pos)
             THEN menu_stack' = menu_stack
             ELSE menu_stack' = <<>>]_vars

\* C6 happens: the left button went down beside the top popup of a stack of
\* two, off the taskbar, and the stack is empty.
C6_Witness ==
    /\ last.ev = "LeftDown"
    /\ last.menus >= 2
    /\ ~last.in_top
    /\ ~CollidePoint(taskbar_rect, last.pos)
    /\ menu_stack = <<>>

\* C7 as stated: with the menu stack non-empty, a right-button-down outside
\* the top popup's rectangle removes exactly the top popup: the stack is one
\* shorter and its lower entries are unchanged.
C7_RightClickOutsidePopsOne ==
    [][(StepIs("RightDown") /\ menu_stack # <<>> /\ ~CollidePoint(TopPopup.rect, last'.pos))
          => menu_stack' = SubSeq(menu_stack, 1, Len(menu_stack) - 1)]_vars

\* C7 amended: with the menu stack non-empty, a right-button-down outside
\* the top popup's rectangle empties the menu stack; one inside the top
\* popup's rectangle removes exactly the top popup, the lower entries
\* unchanged.
C7_RightClickOutsideClearsInsidePops ==
    [][(StepIs("RightDown") /\ menu_stack # <<>>)
          => IF CollidePoint(TopPopup.rect, last'.pos)
             THEN menu_stack' = SubSeq(menu_stack, 1, Len(menu_stack) - 1)
             ELSE menu_stack' = <<>>]_vars

\* C7 happens: the right button went down beside the top popup of a stack
\* of two, and the stack is empty.
C7_Witness ==
    /\ last.ev = "RightDown"
    /\ last.menus >= 2
    /\ ~last.in_top
    /\ menu_stack = <<>>

\* C8: with the menu stack empty, a right-button-down at p pushes exactly
\* one MainMenuWindow with top-left corner p whose target is the topmost
\* window whose rectangle contains p; if no rectangle contains p the stack
\* stays empty.  The z-order and the windows are unchanged.
C8_RightClickOpensMainMenu ==
    [][(StepIs("RightDown") /\ menu_stack = <<>>)
          => LET p == last'.pos IN
             /\ IF Under(p) = {} THEN menu_stack' = <<>>
                ELSE /\ Len(menu_stack') = 1
                     /\ menu_stack'[1].kind = "MainMenu"
                     /\ menu_stack'[1].rect.x = p[1]
                     /\ menu_stack'[1].rect.y = p[2]
                     /\ \E k \in Under(p) :
                           /\ \A j \in Under(p) : j <= k
                           /\ menu_stack'[1].target = windows[k]
             /\ UNCHANGED <<windows, win, minimized_windows, selected_window>>]_vars

\* C8 happens: the right button went down, with no menu open, where two
\* windows overlap, and one main menu is open.
C8_Witness ==
    /\ last.ev = "RightDown"
    /\ last.menus = 0
    /\ Len(menu_stack) = 1
    /\ Len(windows) = 2
    /\ \A i \in WindowIds : CollidePoint(win[i].rect, last.pos)

\* The left click changed no window's selected, minimized or maximized flag
\* and not the z-order
WindowStatesKept ==
    /\ windows' = windows
    /\ Len(win') = Len(win)
    /\ \A i \in WindowIds :
          /\ win'[i].selected = win[i].selected
          /\ win'[i].minimized = win[i].minimized
          /\ win'[i].maximized = win[i].maximized

\* C9 as stated: a left-button-down goes to the taskbar, else to the menu
\* stack, else to the WindowManager; in particular with the menu stack
\* non-empty it never changes a window's selected, minimized or maximized
\* flag or the z-order, and inside the taskbar it never reaches the top
\* popup or the WindowManager.
C9_LeftClickPriority ==
    [][StepIs("LeftDown")
          => /\ menu_stack # <<>> => WindowStatesKept
             /\ CollidePoint(taskbar_rect, last'.pos)
                   => /\ menu_stack' = menu_stack
                      /\ \A i \in WindowIds : win'[i].selected = win[i].selected]_vars

\* C9 amended: with the menu stack non-empty a left-button-down outside the
\* taskbar never changes a window's selected, minimized or maximized flag or
\* the z-order; a left-button-down inside the taskbar leaves the menu stack,
\* every window's selected flag and every window that is not minimized as
\* they were (it may restore a minimized window and bring it to the front,
\* also while a menu is open).
C9_LeftClickPriorityOffTaskbar ==
    [][StepIs("LeftDown")
          => /\ (menu_stack # <<>> /\ ~CollidePoint(taskbar_rect, last'.pos))
                   => WindowStatesKept
             /\ CollidePoint(taskbar_rect, last'.pos)
                   => /\ menu_stack' = menu_stack
                      /\ selected_window' = selected_window
                      /\ \A i \in WindowIds :
                            /\ win'[i].selected = win[i].selected
                            /\ ~win[i].minimized => win'[i] = win[i]]_vars

\* C9 happens: with a menu open the left button went down off the taskbar,
\* beside the top popup, on a window that is neither minimized nor selected.
C9_Witness ==
    /\ last.ev = "LeftDown"
    /\ last.menus > 0
    /\ ~last.in_top
    /\ ~CollidePoint(taskbar_rect, last.pos)
    /\ \E i \in WindowIds :
          /\ CollidePoint(win[i].rect, last.pos)
          /\ ~win[i].minimized
          /\ ~win[i].selected

\* C10: each Ctrl+N adds exactly one DraggableWindow as the last (topmost)
\* entry of the WindowManager, the windows that existed and their order
\* unchanged, titled "Window k" for the number k of windows after the
\* insertion; and the windows' titles are always pairwise distinct.
C10_CtrlNAddsTopmostWindow ==
    /\ [][StepIs("CtrlN")
             => /\ Len(windows') = Len(windows) + 1
                /\ SubSeq(windows', 1, Len(windows)) = windows
                /\ Len(win') = Len(win) + 1
                /\ \A i \in WindowIds : win'[i] = win[i]
                /\ win'[windows'[Len(windows')]].title = DefaultTitle(Len(windows'))]_vars
    /\ [](\A i, j \in WindowIds : i # j => win[i].title # win[j].title)

\* C11: after a Ctrl+W is processed while selected_window refers to a
\* window W, W is minimized and listed in the taskbar and selected_window
\* is None, also while W is in the middle of a drag.
C11_CtrlWMinimizesAndClears ==
    [][(StepIs("CtrlW") /\ selected_window # None)
          => /\ win'[selected_window].minimized
             /\ InSeq(selected_window, minimized_windows')
             /\ selected_window' = None]_vars

\* C12: no input event ends in a fault, and the running flag becomes false
\* only when a Quit event is processed.
C12_NoEventFaults ==
    /\ [](pc # "fault")
    /\ [][(running /\ ~running') => StepIs("Quit")]_vars

\* C13: after a screen Resize or a fullscreen toggle (Ctrl+F) every window's
\* rectangle lies inside the new screen above the taskbar.
C13_RelayoutKeepsWindowsOnDesktop ==
    last.ev \in {"VideoResize", "CtrlF"}
        => \A i \in WindowIds : OnDesktop(win[i].rect)

\* C14: a Resize from the size in effect right before the event (ow, oh) to
\* (nw, nh) scales each window's x and width by nw/ow and its y and height
\* by nh/oh, truncated, before clamping; also after a fullscreen toggle.
C14_ResizeScalesFromCurrentSize ==
    [][StepIs("VideoResize")
          => \A i \in WindowIds :
                win'[i].rect = RescaleWindow(win[i].rect, screen_width', screen_height',
                                             screen_width, screen_height)]_vars

\* The least q with q * d >= n
CeilDiv(n, d) == CHOOSE q \in 0..n : q * d >= n /\ (q = 0 \/ (q - 1) * d < n)

\* The main menus on the menu stack (positions)
MainMenus == {k \in 1..Len(menu_stack) : menu_stack[k].kind = "MainMenu"}

\* The dynamic options of the window the popup at position k is bound to
TargetOptions(k) == win[menu_stack[k].target].dynamic_options

\* C15: for every number n of dynamic options of a window,
\* get_total_pages() is ceil(n / 5) and has_multiple_pages() is true
\* exactly when n > 5.
C15_TotalPagesIsCeiling ==
    \A i \in WindowIds :
        LET dyn == win[i].dynamic_options IN
        /\ GetTotalPages(dyn) = CeilDiv(Len(dyn), OPTIONS_PER_PAGE)
        /\ HasMultiplePages(dyn) <=> Len(dyn) > OPTIONS_PER_PAGE

\* C15 happens: a window has eleven options, and its open main menu, drawn
\* with the page buttons, is on the third of three pages.
C15_Witness ==
    \E k \in MainMenus :
        /\ Len(TargetOptions(k)) = 11
        /\ GetTotalPages(TargetOptions(k)) = 3
        /\ menu_stack[k].current_page = 2
        /\ menu_stack[k].rect.h = (Len(STATIC_OPTIONS) + OPTIONS_PER_PAGE) * OPTION_ROW + 50

\* The left click at p reaches the handle_event of a main menu on top of the
\* menu stack
ReachesMainMenu(p) ==
    /\ menu_stack # <<>>
    /\ TopPopup.kind = "MainMenu"
    /\ ~CollidePoint(taskbar_rect, p)
    /\ CollidePoint(TopPopup.rect, p)

\* The rows shown by the top main menu, and those of them under p
VisibleRows == GetVisibleOptions(TopPopup.current_page, TargetOptions(Len(menu_stack)))

RowsAt(p) == {k \in 1..Len(VisibleRows) : CollidePoint(OptionRect(TopPopup.rect, k - 1), p)}

\* The left click at p selects the row of a static option with this name
SelectsStatic(p, name) ==
    /\ ReachesMainMenu(p)
    /\ \E k \in RowsAt(p) : k <= Len(STATIC_OPTIONS) /\ STATIC_OPTIONS[k] = name

\* The cursor position of the last event was the k-th (0-based) row of the
\* top popup
LastAtRow(k) ==
    /\ last.ev = "LeftDown"
    /\ last.in_top
    /\ last.pos = <<TopPopup.rect.x + 15, TopPopup.rect.y + 15 + k * OPTION_ROW>>

\* C16: right after every create_new_option current_page is the page whose
\* slice [current_page*5, current_page*5+5) holds the index of the option
\* just appended; the sixth option of a list gives 2 pages,
\* has_multiple_pages and current_page = 1.
C16_NewOptionShowsItsPage ==
    [][\A i \in WindowIds :
          Len(win'[i].dynamic_options) = Len(win[i].dynamic_options) + 1
              => /\ menu_stack' # <<>>
                 /\ LET m == menu_stack'[Len(menu_stack')]
                        dyn == win'[i].dynamic_options
                        idx == Len(dyn) - 1
                    IN  /\ m.kind = "MainMenu" /\ m.target = i
                        /\ m.current_page * OPTIONS_PER_PAGE <= idx
                        /\ idx < m.current_page * OPTIONS_PER_PAGE + OPTIONS_PER_PAGE
                        /\ Len(dyn) = 6 => /\ GetTotalPages(dyn) = 2
                                           /\ HasMultiplePages(dyn)
                                           /\ m.current_page = 1]_vars

\* C16 happens: "New Option" was just selected and the list has six options,
\* shown on page 1.
C16_Witness ==
    /\ menu_stack # <<>>
    /\ TopPopup.kind = "MainMenu"
    /\ LastAtRow(2)
    /\ Len(TargetOptions(Len(menu_stack))) = 6
    /\ TopPopup.current_page = 1

\* C17: a left click on a dynamic-option entry shown on the current page of
\* a main menu, whatever the record's name, pushes an EditablePopupWindow
\* bound to that record; no option is created and no other kind of popup is
\* opened.
C17_DynamicOptionOpensEditor ==
    [][\A k \in 1..(Len(STATIC_OPTIONS) + OPTIONS_PER_PAGE) :
          (/\ StepIs("LeftDown")
           /\ ReachesMainMenu(last'.pos)
           /\ k \in RowsAt(last'.pos)
           /\ k > Len(STATIC_OPTIONS))
              => /\ win' = win
                 /\ Len(menu_stack') = Len(menu_stack) + 1
                 /\ LET e == menu_stack'[Len(menu_stack')] IN
                    /\ e.kind = "Editable"
                    /\ e.target = TopPopup.target
                    /\ e.option = VisibleRows[k].idx
                    /\ e.title = TargetOptions(Len(menu_stack))[e.option].name
                    /\ e.body = TargetOptions(Len(menu_stack))[e.option].body]_vars

\* C18: selecting "New Option" appends exactly one record named "Option N",
\* N the previous count + 1, with body "Editable body text.", leaves the
\* records that existed and their order as they were, and pushes nothing:
\* the menu stays open.
C18_NewOptionAppendsOneRecord ==
    [][(StepIs("LeftDown") /\ SelectsStatic(last'.pos, "New Option"))
          => LET n == Len(menu_stack)
                 t == TopPopup.target
                 dyn == win[t].dynamic_options
             IN  /\ win'[t].dynamic_options =
                       Append(dyn, [name |-> "Option " \o ToString(Len(dyn) + 1),
                                    body |-> "Editable body text."])
                 /\ \A j \in WindowIds : j # t => win'[j] = win[j]
                 /\ Len(menu_stack') = n
                 /\ menu_stack' =
                       [menu_stack EXCEPT ![n].current_page = menu_stack'[n].current_page]]_vars

\* C18 happens: "New Option" was just selected on a list that had options,
\* and the menu is the only popup.
C18_Witness ==
    /\ Len(menu_stack) = 1
    /\ TopPopup.kind = "MainMenu"
    /\ LastAtRow(2)
    /\ LET dyn == TargetOptions(1) IN
       /\ Len(dyn) >= 7
       /\ dyn[Len(dyn)].name = "Option " \o ToString(Len(dyn))

\* The left click at p reaches the page buttons of the top main menu: it is
\* on no row and the menu has several pages
ReachesPageButtons(p) ==
    /\ ReachesMainMenu(p)
    /\ RowsAt(p) = {}
    /\ HasMultiplePages(TargetOptions(Len(menu_stack)))

\* C19: next sets current_page to (current_page + 1) mod totalPages and prev
\* to (current_page - 1) mod totalPages, wrapping in both directions, and
\* current_page always stays within 0 .. max(totalPages - 1, 0).
C19_PageButtonsWrap ==
    /\ [][(StepIs("LeftDown") /\ ReachesPageButtons(last'.pos))
             => LET n == Len(menu_stack)
                    page == TopPopup.current_page
                    total == GetTotalPages(TargetOptions(n))
                    page_after == menu_stack'[n].current_page
                IN  IF CollidePoint(PrevButtonRect(TopPopup.rect), last'.pos)
                    THEN page_after = (IF page = 0 THEN total - 1 ELSE page - 1)
                    ELSE IF CollidePoint(NextButtonRect(TopPopup.rect), last'.pos)
                    THEN page_after = (IF page = total - 1 THEN 0 ELSE page + 1)
                    ELSE page_after = page]_vars
    /\ [](\A k \in MainMenus :
             /\ 0 <= menu_stack[k].current_page
             /\ menu_stack[k].current_page <= Max(GetTotalPages(TargetOptions(k)) - 1, 0))

\* C19 happens: the prev button of a drawn menu of three pages was clicked
\* and the menu is on the last page (it was on the first).
C19_Witness ==
    /\ menu_stack # <<>>
    /\ TopPopup.kind = "MainMenu"
    /\ last.ev = "LeftDown"
    /\ last.in_top
    /\ CollidePoint(PrevButtonRect(TopPopup.rect), last.pos)
    /\ TopPopup.rect.h = (Len(STATIC_OPTIONS) + OPTIONS_PER_PAGE) * OPTION_ROW + 50
    /\ GetTotalPages(TargetOptions(Len(menu_stack))) = 3
    /\ TopPopup.current_page = 2

\* The top popup is an EditablePopupWindow in an edit mode
Editing == menu_stack # <<>> /\ (TopPopup.editing_title \/ TopPopup.editing_body)

\* The option record the popup at position k is bound to
BoundRecord(k) == TargetOptions(k)[menu_stack[k].option]

\* C20: Enter without Shift in title-edit (body-edit) mode sets the popup's
\* title (body) and the bound record's name (body) to exactly the edit
\* buffer, the empty buffer included, leaves the popup in no edit mode and
\* leaves the record's other field unchanged.
C20_EnterCommitsBuffer ==
    [][(StepIs("Enter") /\ Editing)
          => LET n == Len(menu_stack)
                 m == TopPopup
                 rec == BoundRecord(n)
                 m_after == menu_stack'[n]
                 rec_after == win'[m.target].dynamic_options[m.option]
             IN  /\ Len(menu_stack') = n
                 /\ ~m_after.editing_title /\ ~m_after.editing_body
                 /\ IF m.editing_title
                    THEN /\ m_after.title = m.input_text
                         /\ rec_after = [name |-> m.input_text, body |-> rec.body]
                    ELSE /\ m_after.body = m.input_text
                         /\ rec_after = [name |-> rec.name, body |-> m.input_text]]_vars

\* C20 happens: Enter committed an empty title: the popup's title and the
\* record's name are empty, the body is the one the record was created
\* with, and the popup is in no edit mode.
C20_Witness ==
    /\ last.ev = "Enter"
    /\ menu_stack # <<>>
    /\ TopPopup.kind = "Editable"
    /\ ~TopPopup.editing_title /\ ~TopPopup.editing_body
    /\ TopPopup.title = ""
    /\ BoundRecord(Len(menu_stack)) = [name |-> "", body |-> "Editable body text."]

\* C21: in an EditablePopupWindow a Backspace on an empty edit buffer leaves
\* the buffer empty and changes nothing else, and Shift+Enter in title-edit
\* mode changes neither the buffer, the title, the body, the bound record
\* nor the edit mode.
C21_EmptyBackspaceAndTitleShiftEnter ==
    [][/\ ((StepIs("Backspace") \/ StepIs("BackspaceOnEmpty"))
              /\ Editing /\ TopPopup.input_text = "")
           => (menu_stack' = menu_stack /\ win' = win)
       /\ (StepIs("ShiftEnter") /\ Editing /\ TopPopup.editing_title)
           => (menu_stack' = menu_stack /\ win' = win)]_vars

\* C21 happens: Backspace was pressed on the emptied buffer of a popup in
\* title-edit mode; the buffer is empty and the title is the one the record
\* was created with.
C21_Witness ==
    /\ last.ev = "BackspaceOnEmpty"
    /\ Editing
    /\ TopPopup.kind = "Editable"
    /\ TopPopup.editing_title
    /\ TopPopup.input_text = ""
    /\ TopPopup.title = "Option 1"
    /\ BoundRecord(Len(menu_stack)).name = "Option 1"

\* The sequence s without the entries equal to x, the others in their order
Without(s, x) == SelectSeq(s, LAMBDA y : y # x)

\* The positions in the taskbar list of the buttons under p
TaskButtonsAt(p) ==
    {k \in 1..Len(minimized_windows) : CollidePoint(TaskButtonRect(k - 1, screen_height), p)}

Held(s) == {s[k] : k \in 1..Len(s)}

\* C23: bring_to_front(w) keeps the same set of windows, puts w last and
\* keeps the relative order of all other windows; it changes nothing when w
\* is not in the manager; and a second consecutive call for the same window
\* leaves the sequence exactly as the first call left it.
C23_BringToFrontIdempotent ==
    [][StepIs("BringToFront")
          => LET w == last'.arg IN
             /\ Held(windows') = Held(windows)
             /\ Len(windows') = Len(windows)
             /\ IF w \in Held(windows)
                THEN /\ windows'[Len(windows')] = w
                     /\ Without(windows', w) = Without(windows, w)
                ELSE windows' = windows
             /\ last'.twice => windows' = windows]_vars

\* C23 happens: bring_to_front was called twice in a row for a window that
\* was first among four, and the window is last.
C23_Witness ==
    /\ last.ev = "BringToFront"
    /\ last.twice
    /\ Len(windows) = MaxFront
    /\ windows[Len(windows)] = last.arg
    /\ Without(windows, last.arg) = <<2, 3, 4>>

\* C24: after a left-button-up is processed every DraggableWindow that was
\* selected for a move or a resize has selected = false and resize = false:
\* no window remains selected.
C24_ButtonUpDeselectsAll ==
    [][StepIs("MouseUp")
          => \A i \in WindowIds : ~win'[i].selected /\ ~win'[i].resize]_vars

\* The step handles a mouse-button or mouse-motion event
MouseStep ==
    StepIs("LeftDown") \/ StepIs("RightDown") \/ StepIs("MouseUp") \/ StepIs("MouseMotion")

\* The step is a left click on the taskbar button of window i
OwnButtonClick(i) ==
    /\ StepIs("LeftDown")
    /\ \E k \in TaskButtonsAt(last'.pos) : minimized_windows[k] = i

\* C25: while a DraggableWindow is minimized, no mouse-button or mouse-motion
\* event other than a left click on its own taskbar button changes its
\* rectangle or its selected, resize, minimized or maximized flag, and no
\* right click opens a MainMenuWindow whose target is that window.
C25_MinimizedWindowIgnoresMouse ==
    [][\A i \in WindowIds :
          (win[i].minimized /\ MouseStep /\ ~OwnButtonClick(i))
              => /\ win'[i].rect = win[i].rect
                 /\ win'[i].selected = win[i].selected
                 /\ win'[i].resize = win[i].resize
                 /\ win'[i].minimized = win[i].minimized
                 /\ win'[i].maximized = win[i].maximized
                 /\ ~(/\ Len(menu_stack') > Len(menu_stack)
                      /\ menu_stack'[Len(menu_stack')].kind = "MainMenu"
                      /\ menu_stack'[Len(menu_stack')].target = i)]_vars

Channels == {"r", "g", "b"}

\* The positions in the menu stack of the RGB popups
RGBPopups == {n \in 1..Len(menu_stack) : menu_stack[n].kind = "RGB"}

\* trunc(clamp(cursor_x - slider_x, 0, slider width) * 255 / slider width)
\* for the sliders of the popup m, which start 20 right of its corner
ChannelAt(m, cursor_x) ==
    LET d == cursor_x - (m.rect.x + 20)
        clamped == IF d < 0 THEN 0 ELSE IF d > SLIDER_WIDTH THEN SLIDER_WIDTH ELSE d
    IN  (clamped * 255) \div SLIDER_WIDTH

\* C26: in an RGBPropertiesWindow every channel value stays in 0..255; after
\* a mouse motion with a slider armed the target window's color is the
\* popup's (r, g, b) with each armed channel recomputed as
\* trunc(clamp(cursor x - slider x, 0, slider width) * 255 / slider width);
\* with no slider armed a motion leaves the target's color unchanged; a
\* left-button-up disarms all three sliders.
C26_SlidersSetTargetColor ==
    /\ [](\A n \in RGBPopups :
             /\ menu_stack[n].r \in 0..255
             /\ menu_stack[n].g \in 0..255
             /\ menu_stack[n].b \in 0..255)
    /\ [][(menu_stack # <<>> /\ TopPopup.kind = "RGB")
             => LET m == TopPopup
                    n == Len(menu_stack)
                    m_after == menu_stack'[n]
                    val(c, old) == IF m.dragging[c] THEN ChannelAt(m, last'.pos[1]) ELSE old
                IN  /\ StepIs("MouseMotion")
                       => /\ Len(menu_stack') = n
                          /\ m_after.r = val("r", m.r)
                          /\ m_after.g = val("g", m.g)
                          /\ m_after.b = val("b", m.b)
                          /\ IF \E c \in Channels : m.dragging[c]
                             THEN win'[m.target].color = <<m_after.r, m_after.g, m_after.b>>
                             ELSE win'[m.target].color = win[m.target].color
                    /\ StepIs("MouseUp")
                       => /\ Len(menu_stack') = n
                          /\ \A c \in Channels : ~m_after.dragging[c]]_vars

\* C26 happens: the cursor moved over an RGB popup with a slider armed and
\* the target window has the popup's color, which is not the color windows
\* are created with.
C26_Witness ==
    /\ last.ev = "MouseMotion"
    /\ last.in_top
    /\ menu_stack # <<>>
    /\ TopPopup.kind = "RGB"
    /\ \E c \in Channels : TopPopup.dragging[c]
    /\ win[TopPopup.target].color = <<TopPopup.r, TopPopup.g, TopPopup.b>>
    /\ win[TopPopup.target].color # <<100, 100, 250>>

\* The step hands its event to WindowManager.handle_event with the windows
\* and selected_window as they were before the event: a left-button-down
\* with no menu open and off the taskbar, a button-up, a motion, a Quit, a
\* fullscreen toggle
WMDispatchStep ==
    \/ StepIs("LeftDown") /\ menu_stack = <<>> /\ ~CollidePoint(taskbar_rect, last'.pos)
    \/ StepIs("MouseUp")
    \/ StepIs("MouseMotion")
    \/ StepIs("Quit")
    \/ StepIs("CtrlF")

\* C27: WindowManager.handle_event goes from the topmost window down and
\* stops at the first window that is selected after its handle_event; that
\* window becomes the last (topmost) entry of the z-order and
\* selected_window, no window below it receives the event, and if no window
\* is selected afterwards the z-order and selected_window are unchanged.
C27_DispatchStopsAtSelected ==
    [][WMDispatchStep
          => LET sel == {k \in 1..Len(windows) : win'[windows[k]].selected} IN
             IF sel = {}
             THEN windows' = windows /\ selected_window' = selected_window
             ELSE LET k == CHOOSE k \in sel : \A j \in sel : k >= j
                      w == windows[k]
                  IN  /\ windows' = Append(Without(windows, w), w)
                      /\ selected_window' = w
                      /\ \A j \in 1..(k - 1) : win'[windows[j]] = win[windows[j]]]_vars

\* C27 happens: with no menu open the left button went down where two
\* windows overlap; the topmost one is selected and is selected_window, the
\* one below is not selected.
C27_Witness ==
    /\ last.ev = "LeftDown"
    /\ last.menus = 0
    /\ ~CollidePoint(taskbar_rect, last.pos)
    /\ Len(windows) = 2
    /\ \A i \in WindowIds : CollidePoint(win[i].rect, last.pos) /\ ~win[i].minimized
    /\ win[windows[2]].selected
    /\ ~win[windows[1]].selected
    /\ selected_window = windows[2]

\* The flags and the rectangle of window i are as before the step
WindowKept(i) ==
    /\ win'[i].rect = win[i].rect
    /\ win'[i].selected = win[i].selected
    /\ win'[i].resize = win[i].resize
    /\ win'[i].minimized = win[i].minimized
    /\ win'[i].maximized = win[i].maximized

\* Window w reacts to a left-button-down at p: it is not minimized and one
\* of its buttons or its rectangle is under p
Reacts(w, p) ==
    /\ ~w.minimized
    /\ \/ CollidePoint(ButtonRect(w.minimize_button), p)
       \/ CollidePoint(ButtonRect(w.maximize_button), p)
       \/ CollidePoint(w.rect, p)

\* C28: for a left-button-down dispatched by the WindowManager front windows
\* occlude back windows: only the topmost non-minimized window that reacts
\* to the click (a button hit or its rectangle under the cursor) changes
\* state, and every window below it in z-order keeps its rectangle and its
\* selected, resize, minimized and maximized flags.
C28_FrontWindowsOcclude ==
    [][(StepIs("LeftDown") /\ menu_stack = <<>> /\ ~CollidePoint(taskbar_rect, last'.pos))
          => \A k \in 1..Len(windows) :
                (/\ Reacts(win[windows[k]], last'.pos)
                 /\ \A j \in (k + 1)..Len(windows) : ~Reacts(win[windows[j]], last'.pos))
                    => \A j \in 1..Len(windows) : j # k => WindowKept(windows[j])]_vars

\* The windows whose selected flag is true
SelectedWindows == {i \in WindowIds : win[i].selected}

\* C29: in every reachable state at most one DraggableWindow has selected =
\* true, also after a Ctrl+N or a taskbar restore made while another window
\* is being dragged, and when one has, selected_window refers to it.
C29_AtMostOneSelected ==
    /\ Cardinality(SelectedWindows) <= 1
    /\ \A i \in SelectedWindows : selected_window = i

\* C30: the taskbar's minimized_windows list has no duplicates and holds
\* exactly the windows of the WindowManager whose minimized flag is true;
\* the WindowManager's window count never decreases, and selected_window is
\* None or a window of the WindowManager.
C30_TaskbarListsMinimized ==
    /\ [](/\ \A a, b \in 1..Len(minimized_windows) :
                a # b => minimized_windows[a] # minimized_windows[b]
          /\ Held(minimized_windows) = {i \in Held(windows) : win[i].minimized}
          /\ selected_window = None \/ selected_window \in Held(windows))
    /\ [][Len(windows') >= Len(windows)]_vars

\* C30 happens: both windows are minimized and listed, and selected_window
\* refers to the one minimized by Ctrl+W.
C30_Witness ==
    /\ last.ev = "CtrlW"
    /\ Len(windows) = 2
    /\ Len(minimized_windows) = 2
    /\ \A i \in WindowIds : win[i].minimized
    /\ selected_window # None

\* C31: the menu stack never holds more than two popups: when it is not
\* empty its bottom element is a MainMenuWindow, and an element above it is
\* an RGBPropertiesWindow, a HelpWindow or an EditablePopupWindow spawned by
\* that menu (at a point of the menu, for the menu's target window, bound to
\* one of its option records); only the top element receives an event, and
\* a popup above the main menu never pushes a further popup.
C31_MenuStackAtMostTwo ==
    /\ [](/\ Len(menu_stack) <= 2
          /\ menu_stack # <<>> => menu_stack[1].kind = "MainMenu"
          /\ Len(menu_stack) = 2
                => LET menu == menu_stack[1]
                       popup == menu_stack[2]
                   IN  /\ popup.kind \in {"RGB", "Help", "Editable"}
                       /\ CollidePoint(menu.rect, <<popup.rect.x, popup.rect.y>>)
                       /\ popup.kind # "Help" => popup.target = menu.target
                       /\ popup.kind = "Editable"
                             => popup.option \in 1..Len(win[menu.target].dynamic_options))
    /\ [][(events' # events /\ Len(menu_stack) = 2)
             => /\ Len(menu_stack') <= 2
                /\ menu_stack' # <<>> => menu_stack'[1] = menu_stack[1]
                /\ win'[menu_stack[1].target].dynamic_options
                      = win[menu_stack[1].target].dynamic_options
                   \/ menu_stack[2].kind = "Editable"]_vars

\* C31 happens: the left button went down on an EditablePopupWindow lying on
\* top of the main menu, and the stack still holds these two.
C31_Witness ==
    /\ last.ev = "LeftDown"
    /\ last.menus = 2
    /\ last.in_top
    /\ ~CollidePoint(taskbar_rect, last.pos)
    /\ Len(menu_stack) = 2
    /\ TopPopup.kind = "Editable"
    /\ TopPopup.editing_title \/ TopPopup.editing_body

====
